---- MODULE Spec2Model ----
(***************************************************************************)
(* Mixed-variable local search of optuna/_gp/optim_mixed.py.               *)
(*                                                                         *)
(* Real numbers are modelled by integers.  A continuous coordinate of the  *)
(* normalized cube [0, 1] takes the values 0..res (unit 1/res); a          *)
(* stepped coordinate takes the values of its normalized grid in units in  *)
(* which adjacent grid values are an even distance apart, so that the      *)
(* midpoint of two grid values is representable; acquisition values are    *)
(* the integers 0..MaxVal.  The acquisition evaluator is a pure function   *)
(* fixed at construction.  The two scipy solvers are black boxes: what     *)
(* they return is chosen nondeterministically, except that a solver called *)
(* again on the input of its previous call returns what it returned then   *)
(* (both solvers are deterministic algorithms).                            *)
(***************************************************************************)
EXTENDS Integers, Sequences, FiniteSets, TLC

VARIABLES
    search_space,               \* acqf_params.search_space: one record per index
    acqf,                       \* the acquisition function
    entry,                      \* which function the caller entered
    initial_normalized_params,  \* local_search_mixed's start point
    max_iter,                   \* local_search_mixed's iteration cap
    best_normalized_params,     \* incumbent vector
    best_fval,                  \* incumbent value
    updated,                    \* flag returned by the last sub-optimizer call
    last_changed_param,         \* None, CONTINUOUS or a discrete index
    ls_pc,                      \* position inside local_search_mixed
    iter,                       \* outer sweeps started so far (the loop's `_`)
    d_pos,                      \* position in the zip over the discrete indices
    ls_result,                  \* <<>> or <<[params, fval]>>: the returned pair
    ls_exit,                    \* how local_search_mixed ended
    warned,                     \* _logger.warn was called
    call,                       \* the last sub-optimizer call: which, nit, grid positions
    solver_memo,                \* per group: input and output of the solver's last call
    clean_since,                \* history: groups unchanged since the last improvement
    run,                        \* 1, or 2 when the caller re-runs on the first result
    first_run,                  \* <<>> or <<[params, fval, exit, last]>>: the first run
    given_initial_xs,           \* optimize_acqf_mixed: the caller's seed points
    n_local_search,             \* optimize_acqf_mixed: number of local searches
    n_additional_samples,       \* optimize_acqf_mixed: size of the sampled pool
    opt_pc,                     \* position inside optimize_acqf_mixed
    sampled_xs,                 \* the pool
    f_vals,                     \* the pool's acquisition values
    max_i,                      \* position of the pool maximizer
    x_guesses,                  \* the start points, in the order of the np.vstack
    n_done,                     \* start points handed to local_search_mixed so far
    best_x,                     \* best vector so far
    best_f,                     \* best value so far
    acqf_called,                \* history: the acquisition evaluator has been called
    ls_fvals,                   \* history: the values the local searches returned
    fn_grids,                   \* find_nearest_index: the enclosing call's grids
    fn_x,                       \* find_nearest_index: the argument x
    fn_idx                      \* find_nearest_index: the position returned, -1 before the call

vars == <<search_space, acqf, entry, initial_normalized_params, max_iter,
          best_normalized_params, best_fval, updated, last_changed_param, ls_pc,
          iter, d_pos, ls_result, ls_exit, warned, call, solver_memo,
          clean_since, run, first_run, given_initial_xs, n_local_search,
          n_additional_samples, opt_pc, sampled_xs, f_vals, max_i, x_guesses, n_done, best_x,
          best_f, acqf_called, ls_fvals, fn_grids, fn_x, fn_idx>>

fn_vars == <<fn_grids, fn_x, fn_idx>>

opt_vars == <<given_initial_xs, n_local_search, n_additional_samples, opt_pc, sampled_xs,
              f_vals, max_i, x_guesses, n_done, best_x, best_f, ls_fvals>>

-----------------------------------------------------------------------------
(* Bounds of the model *)

MaxVal == 2
MaxIter == 2
MaxTablePoints == 4
MaxLocalSearch == 3
MaxSeeds == 2
MaxPool == 2

(* Constants of the program *)

MAX_INT_EXHAUSTIVE_SEARCH_PARAMS == 16
CONTINUOUS == -1
None == -2
DefaultMaxIter == 100
LbfgsMaxIter == 200

Vals == 0..MaxVal

Max(a, b) == IF a >= b THEN a ELSE b
Min(a, b) == IF a <= b THEN a ELSE b
Abs(a) == IF a >= 0 THEN a ELSE -a

-----------------------------------------------------------------------------
(* The search-space descriptor *)

\* A continuous index (step 0) whose normalized values are 0/res, 1/res, ..., res/res
\* and whose kernel lengthscale is 1/r.
ContinuousParam(res, r) ==
    [scale_type |-> "LINEAR", low |-> 0, high |-> res, step |-> 0, inv_lengthscale |-> r]

\* An integer index low, low + step, ..., high.
SteppedParam(lo, hi, st) ==
    [scale_type |-> "LINEAR", low |-> lo, high |-> hi, step |-> st, inv_lengthscale |-> 1]

\* A categorical index of n categories: bounds (0, n), step 1.
CategoricalParam(n) ==
    [scale_type |-> "CATEGORICAL", low |-> 0, high |-> n, step |-> 1, inv_lengthscale |-> 1]

\* Spaces on which local_search_mixed is called.
Spaces ==
    { <<ContinuousParam(1, 2), CategoricalParam(2)>>,
      <<CategoricalParam(2), CategoricalParam(2)>>,
      <<ContinuousParam(2, 1)>>,
      <<SteppedParam(0, 16, 1)>>,
      <<CategoricalParam(2), SteppedParam(3, 3, 1)>>,
      <<CategoricalParam(1)>> }

Dim(space) == Len(space)
Indices(space) == 0..(Dim(space) - 1)
Param(space, i) == space[i + 1]

continuous_indices(space) == {i \in Indices(space) : Param(space, i).step = 0}

discrete_indices(space) ==
    SelectSeq([k \in 1..Dim(space) |-> k - 1], LAMBDA i : Param(space, i).step > 0)

\* np.arange(low, high + 0.5 * step, step)
Arange(lo, hi, st) ==
    LET n == IF 2 * hi + st > 2 * lo THEN ((2 * (hi - lo) + st - 1) \div (2 * st)) + 1 ELSE 0
    IN  [k \in 1..n |-> lo + (k - 1) * st]

\* A stepped value in units of 1 / (2 * (high - low + step)) of the normalized range.
normalize_one_param(v, lo, hi, st) == 2 * (v - lo) + st

choices_of_discrete_param(space, i) ==
    LET p == Param(space, i) IN
    IF p.scale_type = "CATEGORICAL"
    THEN [k \in 1..p.high |-> k - 1]
    ELSE LET raw == Arange(p.low, p.high, p.step)
         IN  [k \in 1..Len(raw) |-> normalize_one_param(raw[k], p.low, p.high, p.step)]

Range(s) == {s[k] : k \in 1..Len(s)}

UsesLineSearch(space, i) ==
    /\ Param(space, i).scale_type # "CATEGORICAL"
    /\ Len(choices_of_discrete_param(space, i)) > MAX_INT_EXHAUSTIVE_SEARCH_PARAMS

\* The values coordinate i may hold: a point of [0, 1], a choice, or, for a grid
\* searched by line search, any representable value from just below to just above it.
CoordValues(space, i) ==
    IF Param(space, i).step = 0 THEN 0..Param(space, i).high
    ELSE LET ch == choices_of_discrete_param(space, i) IN
         IF UsesLineSearch(space, i) THEN (ch[1] - 1)..(ch[Len(ch)] + 1) ELSE Range(ch)

Points(space) ==
    {x \in [Indices(space) -> UNION {CoordValues(space, i) : i \in Indices(space)}] :
        \A i \in Indices(space) : x[i] \in CoordValues(space, i)}

OnGrid(space, x) ==
    \A i \in Range(discrete_indices(space)) : x[i] \in Range(choices_of_discrete_param(space, i))

-----------------------------------------------------------------------------
(* The acquisition function *)

\* The acquisition function is a table of values, or a single hill of height
\* MaxVal at `at`, falling by one per grid step.
Table(t) == [kind |-> "table", table |-> t, at |-> <<>>]
Hill(p) == [kind |-> "hill", table |-> <<>>, at |-> p]

HillValue(p, x) ==
    LET n == Cardinality(DOMAIN x)
        dist[k \in 0..n] == IF k = 0 THEN 0 ELSE dist[k - 1] + Abs(x[k - 1] - p[k - 1])
    IN  Max(0, MaxVal - (dist[n] + 1) \div 2)

\* Where a hill may stand: each line-searched coordinate at the first, the middle
\* or the last value of its grid.
HillSites(space) ==
    {q \in Points(space) :
        \A i \in Range(discrete_indices(space)) :
            LET ch == choices_of_discrete_param(space, i) IN
            IF UsesLineSearch(space, i)
            THEN q[i] \in {ch[1], ch[(Len(ch) + 1) \div 2], ch[Len(ch)]}
            ELSE q[i] \in Range(ch)}

\* The acquisition functions drawn at construction: every function on a space of a
\* few points, the single hills on a larger one.
AcqfFamily(space) ==
    IF Cardinality(Points(space)) <= MaxTablePoints
    THEN {Table(t) : t \in [Points(space) -> Vals]}
    ELSE {Hill(p) : p \in HillSites(space)}

\* eval_acqf_no_grad, and the value part of eval_acqf_with_grad: a pure function.
Eval(f, x) == IF f.kind = "table" THEN f.table[x] ELSE HillValue(f.at, x)

-----------------------------------------------------------------------------
(* The coordinate-group optimizers.  Each returns the new vector, its value and
   the improvement flag; `raised` names the exception when the call does not
   return.  nit, cur_i and opt_i record the solver's iteration count and the
   line search's starting and snapped grid positions. *)

Outcome(fn, params, fval, upd, nit, cur_i, opt_i) ==
    [fn |-> fn, params |-> params, fval |-> fval, updated |-> upd, raised |-> "",
     nit |-> nit, cur_i |-> cur_i, opt_i |-> opt_i]

Raised(fn, exc, params, fval) ==
    [fn |-> fn, params |-> params, fval |-> fval, updated |-> FALSE, raised |-> exc,
     nit |-> 0, cur_i |-> -1, opt_i |-> -1]

\* Line 64 and the bounds of line 65: x / lengthscale, in [0, 1 / lengthscale].
Scaled(space, i, x) == x * Param(space, i).inv_lengthscale

\* Lines 56 and 72: scaled_x * lengthscale.
Unscaled(space, i, z) == z \div Param(space, i).inv_lengthscale

\* The representable points of the box [0, 1 / lengthscale] of line 65.
ScaledValues(space, i) == {Scaled(space, i, c) : c \in CoordValues(space, i)}

\* What so.fmin_l_bfgs_b may return: a point of the box and an iteration count.
\* Without continuous indices the solver is not called.
LbfgsOutcomes(space, cont) ==
    IF cont = {} THEN {[x |-> <<>>, nit |-> 0]}
    ELSE [x : {z \in [cont -> UNION {ScaledValues(space, i) : i \in cont}] :
                  \A i \in cont : z[i] \in ScaledValues(space, i)},
          nit : {0, 1, LbfgsMaxIter}]

\* The scratch copy after the solver's last evaluation: line 56.
ScratchAt(ap, initial_params, cont, x) ==
    [i \in DOMAIN initial_params |->
        IF i \in cont THEN Unscaled(ap.search_space, i, x[i]) ELSE initial_params[i]]

\* Mutant: the improvement is accepted without the comparison of line 70.
_gradient_ascent_unchecked(ap, initial_params, initial_fval, cont, sol) ==
    IF cont = {}
    THEN Outcome("gradient_ascent", initial_params, initial_fval, FALSE, 0, -1, -1)
    ELSE LET normalized_params == ScratchAt(ap, initial_params, cont, sol.x)
         IN  Outcome("gradient_ascent", normalized_params, Eval(ap.acqf, normalized_params),
                     TRUE, sol.nit, -1, -1)

\* Mutant: the no-improvement path returns the scratch copy the solver wrote to.
_gradient_ascent_scratch(ap, initial_params, initial_fval, cont, sol) ==
    IF cont = {}
    THEN Outcome("gradient_ascent", initial_params, initial_fval, FALSE, 0, -1, -1)
    ELSE LET normalized_params == ScratchAt(ap, initial_params, cont, sol.x)
             fval_opt == Eval(ap.acqf, normalized_params)
         IN  IF fval_opt > initial_fval /\ sol.nit > 0
             THEN Outcome("gradient_ascent", normalized_params, fval_opt, TRUE, sol.nit, -1, -1)
             ELSE Outcome("gradient_ascent", normalized_params, initial_fval, FALSE,
                          sol.nit, -1, -1)

_gradient_ascent(ap, initial_params, initial_fval, cont, sol) ==
    IF cont = {}
    THEN Outcome("gradient_ascent", initial_params, initial_fval, FALSE, 0, -1, -1)
    ELSE LET normalized_params == ScratchAt(ap, initial_params, cont, sol.x)
             fval_opt == Eval(ap.acqf, normalized_params)
         IN  IF fval_opt > initial_fval /\ sol.nit > 0
             THEN Outcome("gradient_ascent", normalized_params, fval_opt, TRUE, sol.nit, -1, -1)
             ELSE Outcome("gradient_ascent", initial_params, initial_fval, FALSE,
                          sol.nit, -1, -1)

\* np.argmax: the first position holding the largest value.
ArgMax(fvals) ==
    CHOOSE k \in 1..Len(fvals) :
        /\ \A j \in 1..Len(fvals) : fvals[j] <= fvals[k]
        /\ \A j \in 1..(k - 1) : fvals[j] < fvals[k]

\* Line 85.
ChoicesExceptCurrent(choices, current) == SelectSeq(choices, LAMBDA c : c # current)

\* Lines 87-88.
AllParams(initial_params, param_idx, cs) ==
    [k \in 1..Len(cs) |-> [initial_params EXCEPT ![param_idx] = cs[k]]]

\* Mutant: line 92 compares with >= instead of >.
_exhaustive_search_ge(ap, initial_params, initial_fval, param_idx, choices) ==
    LET all_params == AllParams(initial_params, param_idx,
                                ChoicesExceptCurrent(choices, initial_params[param_idx]))
        fvals == [k \in 1..Len(all_params) |-> Eval(ap.acqf, all_params[k])]
    IN  IF Len(fvals) = 0
        THEN Raised("exhaustive_search", "ValueError", initial_params, initial_fval)
        ELSE LET best_idx == ArgMax(fvals) IN
             IF fvals[best_idx] >= initial_fval
             THEN Outcome("exhaustive_search", all_params[best_idx], fvals[best_idx], TRUE,
                          0, -1, -1)
             ELSE Outcome("exhaustive_search", initial_params, initial_fval, FALSE, 0, -1, -1)

\* np.argmax of an empty array raises ValueError.
_exhaustive_search(ap, initial_params, initial_fval, param_idx, choices) ==
    LET all_params == AllParams(initial_params, param_idx,
                                ChoicesExceptCurrent(choices, initial_params[param_idx]))
        fvals == [k \in 1..Len(all_params) |-> Eval(ap.acqf, all_params[k])]
    IN  IF Len(fvals) = 0
        THEN Raised("exhaustive_search", "ValueError", initial_params, initial_fval)
        ELSE LET best_idx == ArgMax(fvals) IN
             IF fvals[best_idx] > initial_fval
             THEN Outcome("exhaustive_search", all_params[best_idx], fvals[best_idx], TRUE,
                          0, -1, -1)
             ELSE Outcome("exhaustive_search", initial_params, initial_fval, FALSE, 0, -1, -1)

\* np.searchsorted(grids, x): the number of grid values below x.
SearchSorted(grids, x) == Cardinality({k \in 1..Len(grids) : grids[k] < x})

\* np.clip(v, lo, hi)
Clip(v, lo, hi) == Min(Max(v, lo), hi)

\* grids[i], with the source's positions 0..len-1
At(grids, i) == grids[i + 1]

\* Mutant: line 112 compares with <= instead of <.
find_nearest_index_le(grids, x) ==
    LET i == Clip(SearchSorted(grids, x), 1, Len(grids) - 1)
    IN  IF Abs(x - At(grids, i - 1)) <= Abs(x - At(grids, i)) THEN i - 1 ELSE i

find_nearest_index(grids, x) ==
    LET i == Clip(SearchSorted(grids, x), 1, Len(grids) - 1)
    IN  IF Abs(x - At(grids, i - 1)) < Abs(x - At(grids, i)) THEN i - 1 ELSE i

\* What so.minimize_scalar may return for the bracket of line 150.  An index
\* searched exhaustively does not call it.
BrentOutcomes(space, i) ==
    IF UsesLineSearch(space, i)
    THEN LET grids == choices_of_discrete_param(space, i)
         IN  (grids[1] - 1)..(grids[Len(grids)] + 1)
    ELSE {0}

\* Mutant: line 159 writes res.x itself, not the grid value it was snapped to.
_discrete_line_search_unsnapped(ap, initial_params, initial_fval, param_idx, grids, res_x) ==
    IF Len(grids) = 1
    THEN Outcome("discrete_line_search", initial_params, initial_fval, FALSE, 0, 0, 0)
    ELSE LET current_choice_i == find_nearest_index(grids, initial_params[param_idx]) IN
         IF initial_params[param_idx] # At(grids, current_choice_i)
         THEN Raised("discrete_line_search", "AssertionError", initial_params, initial_fval)
         ELSE LET opt_idx == find_nearest_index(grids, res_x)
                  fval_opt == IF opt_idx = current_choice_i THEN initial_fval
                              ELSE Eval(ap.acqf, [initial_params EXCEPT
                                                     ![param_idx] = At(grids, opt_idx)])
              IN  IF opt_idx # current_choice_i /\ fval_opt > initial_fval
                  THEN Outcome("discrete_line_search",
                               [initial_params EXCEPT ![param_idx] = res_x], fval_opt, TRUE,
                               0, current_choice_i, opt_idx)
                  ELSE Outcome("discrete_line_search", initial_params, initial_fval, FALSE,
                               0, current_choice_i, opt_idx)

\* The cache holds -initial_fval at the starting position (line 117) and the
\* evaluator's value at every other position (lines 126-130).
_discrete_line_search(ap, initial_params, initial_fval, param_idx, grids, res_x) ==
    IF Len(grids) = 1
    THEN Outcome("discrete_line_search", initial_params, initial_fval, FALSE, 0, 0, 0)
    ELSE LET current_choice_i == find_nearest_index(grids, initial_params[param_idx]) IN
         IF initial_params[param_idx] # At(grids, current_choice_i)
         THEN Raised("discrete_line_search", "AssertionError", initial_params, initial_fval)
         ELSE LET opt_idx == find_nearest_index(grids, res_x)
                  normalized_params == [initial_params EXCEPT ![param_idx] = At(grids, opt_idx)]
                  fval_opt == IF opt_idx = current_choice_i THEN initial_fval
                              ELSE Eval(ap.acqf, normalized_params)
              IN  IF opt_idx # current_choice_i /\ fval_opt > initial_fval
                  THEN Outcome("discrete_line_search", normalized_params, fval_opt, TRUE,
                               0, current_choice_i, opt_idx)
                  ELSE Outcome("discrete_line_search", initial_params, initial_fval, FALSE,
                               0, current_choice_i, opt_idx)

_local_search_discrete(ap, initial_params, initial_fval, param_idx, choices, res_x) ==
    LET scale_type == Param(ap.search_space, param_idx).scale_type IN
    IF scale_type = "CATEGORICAL" \/ Len(choices) <= MAX_INT_EXHAUSTIVE_SEARCH_PARAMS
    THEN _exhaustive_search(ap, initial_params, initial_fval, param_idx, choices)
    ELSE _discrete_line_search(ap, initial_params, initial_fval, param_idx, choices, res_x)

-----------------------------------------------------------------------------
(* local_search_mixed *)

acqf_params == [search_space |-> search_space, acqf |-> acqf]

Groups(space) == {CONTINUOUS} \cup Range(discrete_indices(space))

NoCall == [fn |-> "none", nit |-> 0, cur_i |-> -1, opt_i |-> -1, raised |-> ""]
CallOf(r) == [fn |-> r.fn, nit |-> r.nit, cur_i |-> r.cur_i, opt_i |-> r.opt_i, raised |-> r.raised]

\* A solver is deterministic: asked again what it was last asked, it answers the same.
MemoAllows(g, x, out) ==
    IF solver_memo[g] = <<>> THEN TRUE
    ELSE IF solver_memo[g][1].at # x THEN TRUE
    ELSE solver_memo[g][1].out = out

MemoPut(g, x, out, called) ==
    IF called THEN [solver_memo EXCEPT ![g] = <<[at |-> x, out |-> out]>>] ELSE solver_memo

Incumbent == [params |-> best_normalized_params, fval |-> best_fval]

Return(how) ==
    /\ ls_result' = <<Incumbent>>
    /\ ls_exit' = how
    /\ ls_pc' = "done"

\* The assignment (best_normalized_params, best_fval, updated) = ..., and the
\* update of last_changed_param that follows it.
Assign(r, g) ==
    /\ best_normalized_params' = r.params
    /\ best_fval' = r.fval
    /\ updated' = r.updated
    /\ last_changed_param' = IF r.updated THEN g ELSE last_changed_param
    /\ clean_since' = IF r.updated THEN {} ELSE clean_since \cup {g}
    /\ call' = CallOf(r)

Frame == UNCHANGED <<search_space, acqf, entry, max_iter, run, first_run, opt_vars, fn_vars>>

\* Lines 230-234.
LocalSearchBegin ==
    /\ ls_pc = "call"
    /\ best_normalized_params' = initial_normalized_params
    /\ best_fval' = Eval(acqf, initial_normalized_params)
    /\ last_changed_param' = None
    /\ clean_since' = {}
    /\ iter' = 0
    /\ ls_pc' = "loop"
    /\ acqf_called' = TRUE
    /\ UNCHANGED <<initial_normalized_params, updated, d_pos, ls_result, ls_exit, warned,
                   call, solver_memo>>
    /\ Frame

\* Lines 236-239.
ConvergedAtContinuous ==
    /\ ls_pc = "loop"
    /\ iter < max_iter
    /\ last_changed_param = CONTINUOUS
    /\ iter' = iter + 1
    /\ Return("converged")
    /\ UNCHANGED <<initial_normalized_params, best_normalized_params, best_fval, updated,
                   last_changed_param, d_pos, warned, call, solver_memo,
                   clean_since, acqf_called>>
    /\ Frame

\* Mutant: the loop of line 236 without its bound.
OptimizeContinuous_NoCap ==
    /\ ls_pc = "loop"
    /\ last_changed_param # CONTINUOUS
    /\ LET cont == continuous_indices(search_space) IN
       \E sol \in LbfgsOutcomes(search_space, cont) :
          /\ MemoAllows(CONTINUOUS, best_normalized_params, sol)
          /\ Assign(_gradient_ascent(acqf_params, best_normalized_params, best_fval, cont, sol),
                    CONTINUOUS)
          /\ solver_memo' = MemoPut(CONTINUOUS, best_normalized_params, sol, cont # {})
    /\ iter' = iter + 1
    /\ d_pos' = 1
    /\ ls_pc' = "disc"
    /\ UNCHANGED <<initial_normalized_params, ls_result, ls_exit, warned,
                   acqf_called>>
    /\ Frame

\* Lines 236-249.
OptimizeContinuous ==
    /\ ls_pc = "loop"
    /\ iter < max_iter
    /\ last_changed_param # CONTINUOUS
    /\ LET cont == continuous_indices(search_space) IN
       \E sol \in LbfgsOutcomes(search_space, cont) :
          /\ MemoAllows(CONTINUOUS, best_normalized_params, sol)
          /\ Assign(_gradient_ascent(acqf_params, best_normalized_params, best_fval, cont, sol),
                    CONTINUOUS)
          /\ solver_memo' = MemoPut(CONTINUOUS, best_normalized_params, sol, cont # {})
    /\ iter' = iter + 1
    /\ d_pos' = 1
    /\ ls_pc' = "disc"
    /\ UNCHANGED <<initial_normalized_params, ls_result, ls_exit, warned,
                   acqf_called>>
    /\ Frame

\* Mutant: line 252 tests the continuous group instead of index i.
ConvergedAtDiscrete_WrongGroup ==
    /\ ls_pc = "disc"
    /\ d_pos <= Len(discrete_indices(search_space))
    /\ last_changed_param = CONTINUOUS
    /\ Return("converged")
    /\ UNCHANGED <<initial_normalized_params, best_normalized_params, best_fval, updated,
                   last_changed_param, iter, d_pos, warned, call, solver_memo,
                   clean_since, acqf_called>>
    /\ Frame

\* Lines 251-256.
ConvergedAtDiscrete ==
    /\ ls_pc = "disc"
    /\ d_pos <= Len(discrete_indices(search_space))
    /\ last_changed_param = discrete_indices(search_space)[d_pos]
    /\ Return("converged")
    /\ UNCHANGED <<initial_normalized_params, best_normalized_params, best_fval, updated,
                   last_changed_param, iter, d_pos, warned, call, solver_memo,
                   clean_since, acqf_called>>
    /\ Frame

\* Lines 251-261.
OptimizeDiscrete ==
    /\ ls_pc = "disc"
    /\ d_pos <= Len(discrete_indices(search_space))
    /\ LET i == discrete_indices(search_space)[d_pos]
           choices == choices_of_discrete_param(search_space, i)
       IN  /\ last_changed_param # i
           /\ \E res_x \in BrentOutcomes(search_space, i) :
                 LET r == _local_search_discrete(acqf_params, best_normalized_params,
                                                 best_fval, i, choices, res_x)
                 IN  /\ MemoAllows(i, best_normalized_params, res_x)
                     /\ solver_memo' = MemoPut(i, best_normalized_params, res_x,
                                               r.fn = "discrete_line_search" /\ r.raised = "")
                     /\ IF r.raised # ""
                        THEN /\ ls_pc' = "raised"
                             /\ call' = CallOf(r)
                             /\ UNCHANGED <<best_normalized_params, best_fval, updated,
                                            last_changed_param, clean_since, d_pos>>
                        ELSE /\ Assign(r, i)
                             /\ d_pos' = d_pos + 1
                             /\ ls_pc' = "disc"
    /\ UNCHANGED <<initial_normalized_params, iter, ls_result, ls_exit, warned,
                   acqf_called>>
    /\ Frame

\* Lines 263-265.
ReturnUnchanged ==
    /\ ls_pc = "disc"
    /\ d_pos > Len(discrete_indices(search_space))
    /\ last_changed_param = None
    /\ Return("unchanged")
    /\ UNCHANGED <<initial_normalized_params, best_normalized_params, best_fval, updated,
                   last_changed_param, iter, d_pos, warned, call, solver_memo,
                   clean_since, acqf_called>>
    /\ Frame

\* Line 263 when some group has improved: on to the next sweep.
NextSweep ==
    /\ ls_pc = "disc"
    /\ d_pos > Len(discrete_indices(search_space))
    /\ last_changed_param # None
    /\ ls_pc' = "loop"
    /\ UNCHANGED <<initial_normalized_params, best_normalized_params, best_fval, updated,
                   last_changed_param, iter, d_pos, ls_result, ls_exit, warned, call,
                   solver_memo, clean_since, acqf_called>>
    /\ Frame

\* Lines 267-268.
NotConverged ==
    /\ ls_pc = "loop"
    /\ iter = max_iter
    /\ warned' = TRUE
    /\ Return("cap")
    /\ UNCHANGED <<initial_normalized_params, best_normalized_params, best_fval, updated,
                   last_changed_param, iter, d_pos, call, solver_memo,
                   clean_since, acqf_called>>
    /\ Frame

-----------------------------------------------------------------------------
(* A caller that runs local_search_mixed and runs it again on what it returned. *)

Rerun ==
    /\ entry = "local_search_mixed"
    /\ ls_pc = "done"
    /\ run = 1
    /\ run' = 2
    /\ first_run' = <<[params |-> ls_result[1].params, fval |-> ls_result[1].fval,
                       exit |-> ls_exit, last |-> last_changed_param]>>
    /\ initial_normalized_params' = ls_result[1].params
    /\ ls_pc' = "call"
    /\ ls_result' = <<>>
    /\ ls_exit' = "none"
    /\ warned' = FALSE
    /\ call' = NoCall
    /\ UNCHANGED <<search_space, acqf, entry, max_iter, best_normalized_params, best_fval,
                   updated, last_changed_param, iter, d_pos, solver_memo,
                   clean_since, acqf_called, opt_vars, fn_vars>>

-----------------------------------------------------------------------------
(* optimize_acqf_mixed *)

ls_vars == <<initial_normalized_params, max_iter, best_normalized_params, best_fval, updated,
             last_changed_param, ls_pc, iter, d_pos, ls_result, ls_exit, warned, call,
             solver_memo, clean_since>>

Fixed == UNCHANGED <<search_space, acqf, entry, run, first_run, given_initial_xs,
                     n_local_search, n_additional_samples, fn_vars>>

\* Mutant: the assertion of line 287 off by one.
SeedCountOk_OffByOne == Len(given_initial_xs) <= n_local_search

\* The condition asserted at lines 287-289.
SeedCountOk == Len(given_initial_xs) <= n_local_search - 1

\* Lines 287-289, the assertion failing.
SeedCountRejected ==
    /\ opt_pc = "call"
    /\ ~SeedCountOk
    /\ opt_pc' = "assert_failed"
    /\ UNCHANGED <<sampled_xs, f_vals, max_i, x_guesses, n_done, best_x, best_f, ls_fvals,
                   acqf_called, ls_vars>>
    /\ Fixed

\* Lines 287-289, the assertion passing.
SeedCountAccepted ==
    /\ opt_pc = "call"
    /\ SeedCountOk
    /\ opt_pc' = "sample"
    /\ UNCHANGED <<sampled_xs, f_vals, max_i, x_guesses, n_done, best_x, best_f, ls_fvals,
                   acqf_called, ls_vars>>
    /\ Fixed

\* Line 291: sample_normalized_params draws every coordinate from its domain.
SamplePool ==
    /\ opt_pc = "sample"
    /\ sampled_xs' \in [1..n_additional_samples -> {x \in Points(search_space) : OnGrid(search_space, x)}]
    /\ opt_pc' = "evaluate"
    /\ UNCHANGED <<f_vals, max_i, x_guesses, n_done, best_x, best_f, ls_fvals, acqf_called, ls_vars>>
    /\ Fixed

\* Lines 294-297.
EvaluatePool ==
    /\ opt_pc = "evaluate"
    /\ f_vals' = [j \in 1..Len(sampled_xs) |-> Eval(acqf, sampled_xs[j])]
    /\ max_i' = ArgMax(f_vals') - 1
    /\ acqf_called' = TRUE
    /\ opt_pc' = "choose"
    /\ UNCHANGED <<sampled_xs, x_guesses, n_done, best_x, best_f, ls_fvals, ls_vars>>
    /\ Fixed

\* Lines 299-301: the positions of the pool whose probability is not zero.  The
\* weight exp(f - max) of every point but the maximizer is positive.
NonZeroProbs == {j \in 0..(Len(sampled_xs) - 1) : j # max_i}

\* rng.choice(len(sampled_xs), size, replace=False, p=probs): the draws it may make.
Choice(size) ==
    {d \in [1..size -> NonZeroProbs] : \A a, b \in 1..size : a # b => d[a] # d[b]}

\* A draw without replacement needs `size` positions of non-zero probability.
\* probs is NaN throughout when nothing but the maximizer is in the pool (line
\* 301 divides by zero): rng.choice then raises or not with the numpy at hand.
ChoiceRaises(size) == IF NonZeroProbs = {} THEN TRUE ELSE Cardinality(NonZeroProbs) < size

ChoiceReturns(size) == Cardinality(NonZeroProbs) >= size

\* Lines 299-307, rng.choice raising.
ChoiceFails ==
    /\ opt_pc = "choose"
    /\ ChoiceRaises(n_local_search - Len(given_initial_xs) - 1)
    /\ opt_pc' = "choice_raised"
    /\ UNCHANGED <<sampled_xs, f_vals, max_i, x_guesses, n_done, best_x, best_f, ls_fvals,
                   acqf_called, ls_vars>>
    /\ Fixed

\* Lines 299-314.
ChooseStartPoints ==
    /\ opt_pc = "choose"
    /\ ChoiceReturns(n_local_search - Len(given_initial_xs) - 1)
    /\ \E remaining_idxs \in Choice(n_local_search - Len(given_initial_xs) - 1) :
          x_guesses' = <<At(sampled_xs, max_i)>>
                       \o [j \in 1..Len(remaining_idxs) |-> At(sampled_xs, remaining_idxs[j])]
                       \o given_initial_xs
    /\ best_x' = At(sampled_xs, max_i)
    /\ best_f' = At(f_vals, max_i)
    /\ n_done' = 0
    /\ opt_pc' = "loop"
    /\ UNCHANGED <<sampled_xs, f_vals, max_i, ls_fvals, acqf_called, ls_vars>>
    /\ Fixed

\* Line 315, the call: max_iter takes its default.
CallLocalSearch ==
    /\ opt_pc = "loop"
    /\ n_done < Len(x_guesses)
    /\ initial_normalized_params' = x_guesses[n_done + 1]
    /\ max_iter' = DefaultMaxIter
    /\ ls_pc' = "call"
    /\ ls_result' = <<>>
    /\ ls_exit' = "none"
    /\ warned' = FALSE
    /\ call' = NoCall
    /\ opt_pc' = "local_search"
    /\ UNCHANGED <<best_normalized_params, best_fval, updated, last_changed_param, iter, d_pos,
                   solver_memo, clean_since>>
    /\ UNCHANGED <<sampled_xs, f_vals, max_i, x_guesses, n_done, best_x, best_f, ls_fvals, acqf_called>>
    /\ Fixed

\* Mutant: lines 316-318 without the comparison.
AfterLocalSearch_Overwrite ==
    /\ opt_pc = "local_search"
    /\ ls_pc = "done"
    /\ LET x == ls_result[1].params
           f == ls_result[1].fval
       IN  /\ best_x' = x
           /\ best_f' = f
           /\ ls_fvals' = ls_fvals \cup {f}
    /\ n_done' = n_done + 1
    /\ ls_pc' = "idle"
    /\ opt_pc' = "loop"
    /\ UNCHANGED <<initial_normalized_params, max_iter, best_normalized_params, best_fval,
                   updated, last_changed_param, iter, d_pos, ls_result, ls_exit, warned, call,
                   solver_memo, clean_since>>
    /\ UNCHANGED <<sampled_xs, f_vals, max_i, x_guesses, acqf_called>>
    /\ Fixed

\* Lines 315-318, the call returning.
AfterLocalSearch ==
    /\ opt_pc = "local_search"
    /\ ls_pc = "done"
    /\ LET x == ls_result[1].params
           f == ls_result[1].fval
       IN  /\ best_x' = IF f > best_f THEN x ELSE best_x
           /\ best_f' = IF f > best_f THEN f ELSE best_f
           /\ ls_fvals' = ls_fvals \cup {f}
    /\ n_done' = n_done + 1
    /\ ls_pc' = "idle"
    /\ opt_pc' = "loop"
    /\ UNCHANGED <<initial_normalized_params, max_iter, best_normalized_params, best_fval,
                   updated, last_changed_param, iter, d_pos, ls_result, ls_exit, warned, call,
                   solver_memo, clean_since>>
    /\ UNCHANGED <<sampled_xs, f_vals, max_i, x_guesses, acqf_called>>
    /\ Fixed

\* Line 315, the call raising: the exception leaves optimize_acqf_mixed.
LocalSearchRaised ==
    /\ opt_pc = "local_search"
    /\ ls_pc = "raised"
    /\ opt_pc' = "raised"
    /\ ls_pc' = "idle"
    /\ UNCHANGED <<initial_normalized_params, max_iter, best_normalized_params, best_fval,
                   updated, last_changed_param, iter, d_pos, ls_result, ls_exit, warned, call,
                   solver_memo, clean_since>>
    /\ UNCHANGED <<sampled_xs, f_vals, max_i, x_guesses, n_done, best_x, best_f, ls_fvals, acqf_called>>
    /\ Fixed

\* Line 320.
OptimizeReturn ==
    /\ opt_pc = "loop"
    /\ n_done = Len(x_guesses)
    /\ opt_pc' = "returned"
    /\ UNCHANGED <<sampled_xs, f_vals, max_i, x_guesses, n_done, best_x, best_f, ls_fvals,
                   acqf_called, ls_vars>>
    /\ Fixed

-----------------------------------------------------------------------------
(* The calls made *)

SeqsUpTo(S, n) == UNION {[1..m -> S] : m \in 0..n}

Origin(space) == [i \in Indices(space) |-> 0]

\* Spaces on which optimize_acqf_mixed is called.
MultiSpaces ==
    { <<CategoricalParam(2)>>,
      <<ContinuousParam(1, 2)>>,
      <<CategoricalParam(1)>> }

InitCommon ==
    /\ best_normalized_params = initial_normalized_params
    /\ best_fval = 0
    /\ updated = FALSE
    /\ last_changed_param = None
    /\ iter = 0
    /\ d_pos = 1
    /\ ls_result = <<>>
    /\ ls_exit = "none"
    /\ warned = FALSE
    /\ call = NoCall
    /\ solver_memo = [g \in Groups(search_space) |-> <<>>]
    /\ clean_since = {}
    /\ run = 1
    /\ first_run = <<>>
    /\ sampled_xs = <<>>
    /\ f_vals = <<>>
    /\ max_i = 0
    /\ x_guesses = <<>>
    /\ n_done = 0
    /\ best_x = initial_normalized_params
    /\ best_f = 0
    /\ acqf_called = FALSE
    /\ ls_fvals = {}
    /\ fn_grids = <<>>
    /\ fn_x = 0
    /\ fn_idx = -1

\* local_search_mixed(acqf_params, initial_normalized_params, max_iter=max_iter)
InitLocalSearch ==
    /\ entry = "local_search_mixed"
    /\ search_space \in Spaces
    /\ acqf \in AcqfFamily(search_space)
    /\ initial_normalized_params \in Points(search_space)
    /\ max_iter \in 0..MaxIter
    /\ ls_pc = "call"
    /\ opt_pc = "idle"
    /\ given_initial_xs = <<>>
    /\ n_local_search = 0
    /\ n_additional_samples = 0

\* optimize_acqf_mixed(acqf_params, given_initial_xs=..., n_additional_samples=...,
\*                     n_local_search=...)
InitOptimize ==
    /\ entry = "optimize_acqf_mixed"
    /\ search_space \in MultiSpaces
    /\ acqf \in AcqfFamily(search_space)
    /\ given_initial_xs \in SeqsUpTo(Points(search_space), MaxSeeds)
    /\ n_local_search \in 1..MaxLocalSearch
    /\ n_additional_samples \in 1..MaxPool
    /\ initial_normalized_params = Origin(search_space)
    /\ max_iter = DefaultMaxIter
    /\ ls_pc = "idle"
    /\ opt_pc = "call"

Init == (InitLocalSearch \/ InitOptimize) /\ InitCommon

Next ==
    \/ LocalSearchBegin
    \/ ConvergedAtContinuous
    \/ OptimizeContinuous
    \/ ConvergedAtDiscrete
    \/ OptimizeDiscrete
    \/ ReturnUnchanged
    \/ NextSweep
    \/ NotConverged
    \/ Rerun
    \/ SeedCountRejected
    \/ SeedCountAccepted
    \/ SamplePool
    \/ EvaluatePool
    \/ ChoiceFails
    \/ ChooseStartPoints
    \/ CallLocalSearch
    \/ AfterLocalSearch
    \/ LocalSearchRaised
    \/ OptimizeReturn

Spec == Init /\ [][Next]_vars

-----------------------------------------------------------------------------
(* find_nearest_index on its own: any strictly ascending grid of at least two
   values (the line search returns before defining it when there is one), any x. *)

MaxGrid == 5

RECURSIVE Ascending(_)
Ascending(S) ==
    IF S = {} THEN <<>>
    ELSE LET m == CHOOSE e \in S : \A o \in S : e <= o
         IN  <<m>> \o Ascending(S \ {m})

AscendingGrids == {Ascending(S) : S \in {T \in SUBSET (0..MaxGrid) : Cardinality(T) >= 2}}

InitNearest ==
    /\ entry = "find_nearest_index"
    /\ search_space = <<>>
    /\ acqf = Table(<<>>)
    /\ initial_normalized_params = <<>>
    /\ max_iter = DefaultMaxIter
    /\ ls_pc = "idle"
    /\ opt_pc = "idle"
    /\ given_initial_xs = <<>>
    /\ n_local_search = 0
    /\ n_additional_samples = 0
    /\ best_normalized_params = <<>>
    /\ best_fval = 0
    /\ updated = FALSE
    /\ last_changed_param = None
    /\ iter = 0
    /\ d_pos = 1
    /\ ls_result = <<>>
    /\ ls_exit = "none"
    /\ warned = FALSE
    /\ call = NoCall
    /\ solver_memo = <<>>
    /\ clean_since = {}
    /\ run = 1
    /\ first_run = <<>>
    /\ sampled_xs = <<>>
    /\ f_vals = <<>>
    /\ max_i = 0
    /\ x_guesses = <<>>
    /\ n_done = 0
    /\ best_x = <<>>
    /\ best_f = 0
    /\ acqf_called = FALSE
    /\ ls_fvals = {}
    /\ fn_grids \in AscendingGrids
    /\ fn_x \in (-1)..(MaxGrid + 1)
    /\ fn_idx = -1

\* Lines 110-112, called as at lines 114 and 154.
ApplyFindNearest ==
    /\ entry = "find_nearest_index"
    /\ fn_idx = -1
    /\ fn_idx' = find_nearest_index(fn_grids, fn_x)
    /\ UNCHANGED <<fn_grids, fn_x, search_space, acqf, entry, run, first_run, opt_vars,
                   ls_vars, acqf_called>>

NextNearest == ApplyFindNearest

SpecNearest == InitNearest /\ [][NextNearest]_vars

-----------------------------------------------------------------------------
(* Properties of local_search_mixed *)

Running == ls_pc \in {"loop", "disc"}

\* A step in which the continuous optimizer was called and returned.
ContinuousCall == ls_pc = "loop" /\ ls_pc' = "disc"

\* A step in which the discrete optimizer was called and returned.
DiscreteCall == ls_pc = "disc" /\ ls_pc' = "disc" /\ d_pos' = d_pos + 1

\* The index the discrete loop stands at.
CurrentIndex == discrete_indices(search_space)[d_pos]

\* C1: best_fval never decreases from one optimizer call to the next, and the
\* value local_search_mixed returns, on convergence or at the cap, is at least
\* the acquisition value of the start point.
C1_Monotone ==
    /\ [][Running => best_fval' >= best_fval]_vars
    /\ [](Running => best_fval >= Eval(acqf, initial_normalized_params))
    /\ [](ls_pc = "done" => /\ ls_result[1].fval >= Eval(acqf, initial_normalized_params)
                            /\ ls_result[1].fval = Eval(acqf, ls_result[1].params))

\* A search returned a value strictly above its start point's.
C1_Witness ==
    /\ ls_pc = "done"
    /\ ls_result[1].fval > Eval(acqf, initial_normalized_params)

\* The group the driver optimizes next unless it returns first; None when the
\* sweep or the loop is exhausted.
Upcoming ==
    IF ls_pc = "loop" THEN (IF iter < max_iter THEN CONTINUOUS ELSE None)
    ELSE IF d_pos <= Len(discrete_indices(search_space)) THEN CurrentIndex
    ELSE None

EndOfSweep == ls_pc = "disc" /\ d_pos > Len(discrete_indices(search_space))

\* C6: groups are optimized continuous first, then the discrete indices in
\* ascending order, sweep after sweep; the driver returns before the cap exactly
\* when the group it is about to optimize is the last one that improved, or at
\* the end of the first sweep when none has improved; at such a return every
\* other group has reported no improvement since the last improvement.
C6_ConvergenceTest ==
    /\ [](\A a, b \in 1..Len(discrete_indices(search_space)) :
             a < b => discrete_indices(search_space)[a] < discrete_indices(search_space)[b])
    /\ [][ContinuousCall => call'.fn = "gradient_ascent" /\ d_pos' = 1]_vars
    /\ [][DiscreteCall => /\ call'.fn \in {"exhaustive_search", "discrete_line_search"}
                          /\ (updated' => last_changed_param' = CurrentIndex)]_vars
    /\ [][ls_pc = "disc" /\ ls_pc' = "loop" => EndOfSweep]_vars
    /\ [][Running =>
            ((ls_pc' = "done" /\ ls_exit' # "cap")
               <=> IF Upcoming # None THEN last_changed_param = Upcoming
                   ELSE EndOfSweep /\ last_changed_param = None)]_vars
    /\ [](ls_pc = "done" /\ ls_exit = "unchanged" => iter = 1 /\ last_changed_param = None)
    /\ [](ls_pc = "done" /\ ls_exit # "cap"
             => Groups(search_space) \ {last_changed_param} \subseteq clean_since)

\* A return by the convergence test in a later sweep, at a discrete index.
C6_Witness ==
    /\ ls_pc = "done"
    /\ ls_exit = "converged"
    /\ iter >= 2
    /\ last_changed_param \in Range(discrete_indices(search_space))
    /\ Cardinality(Groups(search_space)) >= 3

\* The optimizer calls and loop tests still ahead of the driver, at most.
StepsLeft ==
    LET n == Len(discrete_indices(search_space)) IN
    IF ls_pc = "loop" THEN (max_iter - iter) * (n + 3) + 1
    ELSE IF ls_pc = "disc" THEN (max_iter - iter) * (n + 3) + 1 + (n + 2 - d_pos)
    ELSE 0

\* C7: the driver makes at most max_iter sweeps and every step brings it closer
\* to its end; at the cap it warns and returns the incumbent, and it warns in
\* no other case.
C7_BoundedTermination ==
    /\ [](iter <= max_iter)
    /\ [](StepsLeft >= 0)
    /\ [][Running => StepsLeft' < StepsLeft]_vars
    /\ [][ls_pc = "loop" /\ iter = max_iter
            => ls_pc' = "done" /\ warned' /\ ls_result' = <<Incumbent>>]_vars
    /\ [][Running /\ iter' # iter => iter' = iter + 1 /\ ls_pc = "loop"]_vars
    /\ [][ls_pc = "disc" => \/ d_pos' = d_pos + 1
                            \/ ls_pc' \in {"done", "raised"}
                            \/ ls_pc' = "loop" /\ iter < max_iter + 1]_vars
    /\ [](ls_pc = "done" => (warned <=> ls_exit = "cap"))
    /\ [](ls_pc = "done" /\ warned => iter = max_iter /\ ls_result = <<Incumbent>>)

\* The cap reached after sweeps that kept improving.
C7_Witness ==
    /\ ls_pc = "done"
    /\ warned
    /\ max_iter >= 2
    /\ iter = max_iter
    /\ ls_result[1].fval > Eval(acqf, initial_normalized_params)

\* C9: an optimizer that reports an improvement returns a strictly greater
\* value (the line search a different grid position, the continuous optimizer
\* after at least one solver iteration); one that reports none returns its
\* input vector and value.
C9_ImprovementFlags ==
    [][ContinuousCall \/ DiscreteCall =>
          IF updated'
          THEN /\ best_fval' > best_fval
               /\ best_fval' = Eval(acqf, best_normalized_params')
               /\ call'.fn = "discrete_line_search" => call'.opt_i # call'.cur_i
               /\ call'.fn = "gradient_ascent" => call'.nit > 0
          ELSE /\ best_normalized_params' = best_normalized_params
               /\ best_fval' = best_fval]_vars

\* The line search reported an improvement.
C9_Witness ==
    /\ ls_pc = "disc"
    /\ call.fn = "discrete_line_search"
    /\ updated
    /\ call.opt_i # call.cur_i

\* C10: the discrete optimizer for index i changes at most coordinate i, and
\* only to a member of its choice set; the continuous optimizer changes only
\* continuous indices; from an on-grid start point the incumbent stays on grid
\* and the on-grid assertion of the line search never fails.
C10_Frame ==
    /\ [][ContinuousCall =>
            \A j \in Indices(search_space) \ continuous_indices(search_space) :
                best_normalized_params'[j] = best_normalized_params[j]]_vars
    /\ [][DiscreteCall =>
            /\ \A j \in Indices(search_space) \ {CurrentIndex} :
                  best_normalized_params'[j] = best_normalized_params[j]
            /\ best_normalized_params'[CurrentIndex] # best_normalized_params[CurrentIndex]
                  => best_normalized_params'[CurrentIndex]
                        \in Range(choices_of_discrete_param(search_space, CurrentIndex))]_vars
    /\ [](ls_pc \in {"loop", "disc", "done", "raised"}
             /\ OnGrid(search_space, initial_normalized_params)
          => /\ OnGrid(search_space, best_normalized_params)
             /\ ~(ls_pc = "raised" /\ call.raised = "AssertionError"))

\* From an on-grid start the line search moved its coordinate.
C10_Witness ==
    /\ ls_pc = "done"
    /\ OnGrid(search_space, initial_normalized_params)
    /\ call.fn = "discrete_line_search"
    /\ best_normalized_params # initial_normalized_params

\* C5 as stated: the discrete optimizer never raises at an index with a single
\* choice.  It does: _exhaustive_search takes the argmax of no values.
C5_SingletonNoOp ==
    ls_pc = "raised" => Len(choices_of_discrete_param(search_space, CurrentIndex)) # 1

FirstRun == first_run[1]

SecondRunDone == entry = "local_search_mixed" /\ run = 2 /\ ls_pc = "done"

NothingChanged ==
    /\ ls_result[1].params = FirstRun.params
    /\ ls_result[1].fval = FirstRun.fval
    /\ last_changed_param = None

ExhaustiveIndex(g) ==
    /\ g \in Range(discrete_indices(search_space))
    /\ ~UsesLineSearch(search_space, g)

\* C4 as stated: a second run on the first run's result returns the same vector
\* and value, no group improving.
C4_Idempotent == SecondRunDone => NothingChanged

\* C4 amended: so it is when the first run returned by the convergence test and
\* the last group to improve, if any, was an exhaustively searched index.
C4_IdempotentAfterConvergence ==
    (/\ SecondRunDone
     /\ FirstRun.exit # "cap"
     /\ FirstRun.last # None => ExhaustiveIndex(FirstRun.last))
    => NothingChanged

\* The second run after a first run that converged on an exhaustive index.
C4_Witness ==
    /\ SecondRunDone
    /\ FirstRun.exit = "converged"
    /\ ExhaustiveIndex(FirstRun.last)
    /\ FirstRun.params # Origin(search_space)
    /\ ls_exit = "unchanged"

-----------------------------------------------------------------------------
(* Properties of optimize_acqf_mixed *)

MaxOf(S) == CHOOSE m \in S : \A o \in S : o <= m

PoolMax == At(f_vals, max_i)

\* C2: the returned value is the maximum of the pool maximizer's value and the
\* local searches' values, so at least every pool value; when no local search
\* beats the pool maximum the pool maximizer is returned with its pool value.
C2_MultiStartDominance ==
    opt_pc = "returned" =>
        /\ best_f = MaxOf({PoolMax} \cup ls_fvals)
        /\ \A j \in 1..Len(sampled_xs) : best_f >= Eval(acqf, sampled_xs[j])
        /\ best_f = Eval(acqf, best_x)
        /\ (\A f \in ls_fvals : f <= PoolMax)
              => best_x = At(sampled_xs, max_i) /\ best_f = PoolMax

\* Several local searches ran and one beat the pool maximum.
C2_Witness ==
    /\ opt_pc = "returned"
    /\ n_done >= 2
    /\ best_f > PoolMax

\* C3: with more than n_local_search - 1 seed points the call fails on its
\* assertion before the pool is sampled or the evaluator called; with at most
\* that many the assertion does not fire.
C3_SeedCountPrecondition ==
    /\ [](entry = "optimize_acqf_mixed" /\ Len(given_initial_xs) > n_local_search - 1
             => opt_pc \in {"call", "assert_failed"} /\ sampled_xs = <<>> /\ ~acqf_called)
    /\ [][opt_pc = "call" /\ Len(given_initial_xs) > n_local_search - 1
             => opt_pc' = "assert_failed"]_vars
    /\ [](entry = "optimize_acqf_mixed" /\ Len(given_initial_xs) <= n_local_search - 1
             => opt_pc # "assert_failed")

\* The assertion fired on one seed point too many.
C3_Witness ==
    /\ opt_pc = "assert_failed"
    /\ Len(given_initial_xs) = n_local_search

-----------------------------------------------------------------------------
(* Properties of find_nearest_index *)

Applied == entry = "find_nearest_index" /\ fn_idx # -1

Distance(k) == Abs(fn_x - At(fn_grids, k))

Nearest ==
    /\ fn_idx \in 0..(Len(fn_grids) - 1)
    /\ \A k \in 0..(Len(fn_grids) - 1) : Distance(fn_idx) <= Distance(k)

\* C8 as stated: the index of a nearest grid value, the lower of two at the
\* same distance.
C8_NearestTieLower ==
    Applied => /\ Nearest
               /\ \A k \in 0..(Len(fn_grids) - 1) : Distance(k) = Distance(fn_idx) => fn_idx <= k

\* C8 amended: the index of a nearest grid value, the higher of two at the same
\* distance.
C8_NearestTieHigher ==
    Applied => /\ Nearest
               /\ \A k \in 0..(Len(fn_grids) - 1) : Distance(k) = Distance(fn_idx) => fn_idx >= k

\* x midway between two adjacent grid values.
C8_Witness ==
    /\ Applied
    /\ \E k \in 0..(Len(fn_grids) - 1) : k # fn_idx /\ Distance(k) = Distance(fn_idx)

====
